---- MODULE Spec2Model ----
(***************************************************************************)
(* Growth engine of the vessel synthesizer (vs::synthesizer).              *)
(*                                                                         *)
(* Geometry.  All input points (roots, domain samples) lie on the x axis,  *)
(* so a glm::vec3 (x, 0, 0) is written <<x>>.  A float whose value is NaN  *)
(* (glm::normalize of the zero vector, and everything computed from it) is *)
(* written << >>.  Scalars use the same two shapes.  On the x axis every   *)
(* direction is +1, -1 or NaN and every angle is 0, 180 or NaN degrees, so *)
(* the arithmetic below is exact; a NaN position compares false with every *)
(* range, as IEEE comparisons do.                                          *)
(***************************************************************************)
EXTENDS Integers, Sequences, FiniteSets, TLC

VARIABLES
    m_settings,     \* synthesizer::m_settings
    m_params,       \* synthesizer::m_params (m_curr_step and the per-system runtime values)
    m_systems,      \* synthesizer::m_systems: per system forest, node index, attraction index, satisfied list
    m_is_running,   \* synthesizer::m_is_running (atomic flag)
    pc,             \* position of the thread that calls the engine
    attr_map,       \* the local attr_map of step(), alive between step_closest and step_kill
    aborted,        \* a create_node precondition failed (the process is gone)
    hist            \* history of the calls made so far (read by the properties only)

vars == <<m_settings, m_params, m_systems, m_is_running, pc, attr_map, aborted, hist>>

-----------------------------------------------------------------------------
(* Bounds of the model *)

MaxSteps == 2       \* largest settings.m_steps, and the steps asked of run() over all its calls

\* m_steps and the step counter are unsigned integers of one width; MaxSteps
\* stands for its largest value
CounterModulus == MaxSteps + 1

-----------------------------------------------------------------------------
(* Floats and vectors on the x axis *)

NaN == << >>
F(x) == <<x>>
IsNaN(a) == a = NaN
Val(a) == a[1]
Abs(x) == IF x < 0 THEN -x ELSE x
Sign(x) == IF x > 0 THEN 1 ELSE IF x < 0 THEN -1 ELSE 0

\* The scaling of a system and the value of its grow_func are floats that
\* take fractional values; they are kept as reduced fractions n/d, d > 0.
RECURSIVE Gcd(_, _)
Gcd(a, b) == IF b = 0 THEN a ELSE Gcd(b, a % b)
Q(n, d) == LET g == Gcd(Abs(n), d) IN [n |-> n \div g, d |-> d \div g]
qadd(a, b) == Q(a.n * b.d + b.n * a.d, a.d * b.d)
qmul(a, b) == Q(a.n * b.n, a.d * b.d)
qless(a, b) == a.n * b.d < b.n * a.d

fadd(a, b) == IF IsNaN(a) \/ IsNaN(b) THEN NaN ELSE F(Val(a) + Val(b))
fsub(a, b) == IF IsNaN(a) \/ IsNaN(b) THEN NaN ELSE F(Val(a) - Val(b))
fmul(a, b) == IF IsNaN(a) \/ IsNaN(b) THEN NaN ELSE F(Val(a) * Val(b))
\* a > b on floats: false when either side is NaN
fgt(a, b) == ~IsNaN(a) /\ ~IsNaN(b) /\ Val(a) > Val(b)
flt(a, b) == ~IsNaN(a) /\ ~IsNaN(b) /\ Val(a) < Val(b)
fabs(a) == IF IsNaN(a) THEN NaN ELSE F(Abs(Val(a)))

\* glm::normalize: v * inversesqrt(dot(v, v)); the zero vector gives 0 * inf = NaN
normalize(v) == IF IsNaN(v) \/ Val(v) = 0 THEN NaN ELSE F(Sign(Val(v)))
\* glm::dot of two vectors on the x axis
dot(a, b) == fmul(a, b)
\* glm::length
length(v) == fabs(v)
\* glm::cross of two vectors on the x axis: the zero vector
cross(a, b) == IF IsNaN(a) \/ IsNaN(b) THEN NaN ELSE F(0)
\* glm::degrees(glm::acos(x)) at the arguments the x axis produces
acos_degrees(x) ==
    IF IsNaN(x) THEN NaN
    ELSE CASE Val(x) = 1 -> F(0)
           [] Val(x) = 0 -> F(90)
           [] Val(x) = -1 -> F(180)
\* glm::rotate(v, angle, normal): the rotation matrix is built from
\* normalize(normal), so a zero or NaN normal makes every entry NaN
rotate(v, angle, normal) ==
    IF IsNaN(v) \/ IsNaN(angle) \/ IsNaN(normalize(normal)) THEN NaN
    ELSE CASE Val(angle) = 0 -> v

-----------------------------------------------------------------------------
(* Law kernel *)

\* pow(pow(r_l, e) + pow(r_r, e), 1/e); the model runs with exponent 1
murray_radius(r_l, r_r, exponent) ==
    CASE exponent = 1 -> r_l + r_r

\* degrees(acos(clamp(num / den, -1, 1))) for den > 0
acos_clamped(num, den) ==
    CASE num >= den -> 0
      [] num <= -den -> 180
      [] num = 0 -> 90

Pow4(x) == x * x * x * x
Pow2(x) == x * x

\* <<angleOne, angleTwo>> in degrees
murray_angles(r_p, r_l, r_r) ==
    << -acos_clamped(Pow4(r_p) + Pow4(r_l) - Pow4(r_r), 2 * Pow2(r_p) * Pow2(r_l)),
       acos_clamped(Pow4(r_p) - Pow4(r_l) + Pow4(r_r), 2 * Pow2(r_p) * Pow2(r_r)) >>

RECURSIVE SumSeq(_)
SumSeq(s) == IF s = << >> THEN 0 ELSE Head(s) + SumSeq(Tail(s))

\* bets_line_fit of attractions on the x axis: the centroid (kept as sum and
\* count, the caller only takes the direction to it) and the eigenvector of
\* the largest eigenvalue of the covariance, which is the x axis when the
\* points are not all the same
bets_line_fit(c) ==
    LET xs == [i \in 1..Len(c) |-> Val(c[i])]
    IN  [sum |-> SumSeq(xs), n |-> Len(c),
         axis |-> CASE \E i, j \in 1..Len(c) : c[i] # c[j] -> F(1)]

-----------------------------------------------------------------------------
(* Forest, tree and spatial index: the containers the engine is written    *)
(* against (their own source is not part of the engine's file).            *)

Sys == {"arterial", "venous"}
OtherSys(sys) == IF sys = "arterial" THEN "venous" ELSE "arterial"

\* A tree is its arena: node n of tree t of system s has the handle
\* <<s, t, n>>, the tree the handle <<s, t>>.  Node 1 is the root.
is_root(n) == n.parent = 0
is_leaf(n) == Len(n.children) = 0
is_inter(n) == Len(n.children) = 1
is_joint(n) == Len(n.children) = 2

\* tree::create_root(pos, radius, tree)
tree_create_root(pos, radius, tref) ==
    << [m_pos |-> pos, m_radius |-> radius, m_tree |-> tref,
        parent |-> 0, children |-> << >>] >>

\* tree::create_node(parent_id, pos, radius, tree): appends the node to the
\* arena and to the parent's children
tree_create_node(tree, parent_id, pos, radius, tref) ==
    [Append(tree, [m_pos |-> pos, m_radius |-> radius, m_tree |-> tref,
                   parent |-> parent_id, children |-> << >>])
        EXCEPT ![parent_id].children = Append(@, Len(tree) + 1)]

\* the precondition of create_node: the parent has a free child slot
create_node_allowed(tree, parent_id) == Len(tree[parent_id].children) < 2

\* forest::trees().empty()
forest_empty(forest) == Len(forest) = 0

\* the handles of the nodes of a system's forest
ForestNodes(forest, sys) ==
    UNION {{<<sys, t, n>> : n \in 1..Len(forest[t])} : t \in 1..Len(forest)}

\* spatial index of nodes: a set of entries [pos, node]; of attractions: the
\* positions held, as a sorted sequence (one entry per insert)
index_insert_node(index, pos, node) == index \cup {[pos |-> pos, node |-> node]}

RECURSIVE index_insert_attr(_, _)
index_insert_attr(index, pos) ==
    IF index = << >> THEN <<pos>>
    ELSE IF Val(pos) <= Val(Head(index)) THEN <<pos>> \o index
    ELSE <<Head(index)>> \o index_insert_attr(Tail(index), pos)

\* remove(pos, value): one entry at pos, if there is one
RECURSIVE index_remove_attr(_, _)
index_remove_attr(index, pos) ==
    IF index = << >> THEN << >>
    ELSE IF Head(index) = pos THEN Tail(index)
    ELSE <<Head(index)>> \o index_remove_attr(Tail(index), pos)

\* the position lies within radius of center (a NaN never does)
in_range(pos, center, radius) ==
    ~IsNaN(pos) /\ ~IsNaN(center) /\ Abs(Val(pos) - Val(center)) <= radius

\* euclidean_range on the node index: the handles found
node_range(index, center, radius) ==
    {e.node : e \in {x \in index : in_range(x.pos, center, radius)}}

\* euclidean_range on the attraction index: the positions found
attr_range(index, center, radius) ==
    {index[i] : i \in {j \in 1..Len(index) : in_range(index[j], center, radius)}}

-----------------------------------------------------------------------------
(* Engine: data of one system and the public operations on it *)

EmptyMap == [h \in {} |-> << >>]

NodeOf(systems, h) == systems[h[1]].m_forest[h[2]][h[3]]
TreeOf(systems, tref) == systems[tref[1]].m_forest[tref[2]]

\* synthesizer::system_data::clear
system_data_clear(data) ==
    [m_forest |-> << >>, m_node_search |-> {},
     m_attr_search |-> << >>, m_killed_attr |-> << >>]

\* the forest a `const forest&` argument denotes when it is read: a reference
\* to a system's own forest reads that system's current forest
deref_forest(systems, other) ==
    IF other.kind = "system" THEN systems[other.sys].m_forest ELSE other.forest

\* synthesizer::get_forest: a reference to the system's forest
get_forest(sys) == [kind |-> "system", sys |-> sys]

\* synthesizer::set_forest: clear, copy `other`, then for every node of the
\* copy set its tree pointer and insert it into the node index
set_forest(systems, sys, other) ==
    LET cleared == [systems EXCEPT ![sys] = system_data_clear(@)]
        src == deref_forest(cleared, other)
        copy == [t \in 1..Len(src) |->
                    [n \in 1..Len(src[t]) |-> [src[t][n] EXCEPT !.m_tree = <<sys, t>>]]]
    IN  [cleared EXCEPT
            ![sys].m_forest = copy,
            ![sys].m_node_search =
                {[pos |-> copy[h[2]][h[3]].m_pos, node |-> h] : h \in ForestNodes(copy, sys)}]

\* synthesizer::create_root
create_root(systems, settings, sys, pos) ==
    LET t == Len(systems[sys].m_forest) + 1
        new_tree == tree_create_root(pos, settings.m_system[sys].m_term_radius, <<sys, t>>)
    IN  [systems EXCEPT
            ![sys].m_forest = Append(@, new_tree),
            ![sys].m_node_search = index_insert_node(@, pos, <<sys, t, 1>>)]

\* synthesizer::create_attr
create_attr(systems, sys, pos) ==
    [systems EXCEPT ![sys].m_attr_search = index_insert_attr(@, pos)]

\* try_attr without the test against the attractions
try_attr_ignoring_attractions(systems, params, sys, pos) ==
    IF node_range(systems[sys].m_node_search, pos, params.m_system[sys].m_birth_node) # {}
    THEN systems
    ELSE [systems EXCEPT ![sys].m_attr_search = index_insert_attr(@, pos)]

\* synthesizer::try_attr
try_attr(systems, params, sys, pos) ==
    IF node_range(systems[sys].m_node_search, pos, params.m_system[sys].m_birth_node) # {}
    THEN systems
    ELSE IF attr_range(systems[sys].m_attr_search, pos, params.m_system[sys].m_birth_attr) # {}
    THEN systems
    ELSE [systems EXCEPT ![sys].m_attr_search = index_insert_attr(@, pos)]

\* init_runtime_params without the reset of m_curr_step
init_runtime_params_keeping_step(params, settings) ==
    [m_curr_step |-> params.m_curr_step,
     m_system |-> [i \in Sys |->
        [m_scaling |-> Q(1, 1),
         m_birth_attr |-> settings.m_system[i].m_birth_attr,
         m_birth_node |-> settings.m_system[i].m_birth_node,
         m_influence_attr |-> settings.m_system[i].m_influence_attr,
         m_kill_attr |-> settings.m_system[i].m_kill_attr,
         m_growth_distance |-> settings.m_system[i].m_growth_distance]]]

\* synthesizer::init_runtime_params
init_runtime_params(params, settings) ==
    [m_curr_step |-> 0,
     m_system |-> [i \in Sys |->
        [m_scaling |-> Q(1, 1),
         m_birth_attr |-> settings.m_system[i].m_birth_attr,
         m_birth_node |-> settings.m_system[i].m_birth_node,
         m_influence_attr |-> settings.m_system[i].m_influence_attr,
         m_kill_attr |-> settings.m_system[i].m_kill_attr,
         m_growth_distance |-> settings.m_system[i].m_growth_distance]]]

\* sett * (1.0f / scaling); the settings are chosen so that it is exact
scaled(value, scaling) ==
    CASE scaling.n > 0 /\ (value * scaling.d) % scaling.n = 0 -> (value * scaling.d) \div scaling.n

\* domain_growth that leaves m_growth_distance as it was
domain_growth_stale_growth_distance(params, settings, sys) ==
    LET sett == settings.m_system[sys]
        old == params.m_system[sys].m_scaling
        scaling == CASE sett.m_grow_func.m_type = "none" -> old
                     [] sett.m_grow_func.m_type = "linear" -> qadd(old, sett.m_grow_func.m_value)
                     [] sett.m_grow_func.m_type = "exponential" ->
                            qadd(old, qmul(old, sett.m_grow_func.m_value))
    IN  [params EXCEPT !.m_system[sys] =
            [m_scaling |-> scaling,
             m_birth_attr |-> scaled(sett.m_birth_attr, scaling),
             m_birth_node |-> scaled(sett.m_birth_node, scaling),
             m_influence_attr |-> scaled(sett.m_influence_attr, scaling),
             m_kill_attr |-> scaled(sett.m_kill_attr, scaling),
             m_growth_distance |-> params.m_system[sys].m_growth_distance]]

\* synthesizer::domain_growth
domain_growth(params, settings, sys) ==
    LET sett == settings.m_system[sys]
        old == params.m_system[sys].m_scaling
        scaling == CASE sett.m_grow_func.m_type = "none" -> old
                     [] sett.m_grow_func.m_type = "linear" -> qadd(old, sett.m_grow_func.m_value)
                     [] sett.m_grow_func.m_type = "exponential" ->
                            qadd(old, qmul(old, sett.m_grow_func.m_value))
    IN  [params EXCEPT !.m_system[sys] =
            [m_scaling |-> scaling,
             m_birth_attr |-> scaled(sett.m_birth_attr, scaling),
             m_birth_node |-> scaled(sett.m_birth_node, scaling),
             m_influence_attr |-> scaled(sett.m_influence_attr, scaling),
             m_kill_attr |-> scaled(sett.m_kill_attr, scaling),
             m_growth_distance |-> scaled(sett.m_growth_distance, scaling)]]

\* synthesizer::combine_systems
RECURSIVE create_attrs(_, _, _)
create_attrs(systems, sys, positions) ==
    IF positions = << >> THEN systems
    ELSE create_attrs(create_attr(systems, sys, Head(positions)), sys, Tail(positions))

\* combine_systems that clears the satisfied list before it reads it
combine_systems_clearing_first(systems) ==
    [systems EXCEPT !["arterial"].m_killed_attr = << >>]

combine_systems(systems) ==
    IF forest_empty(systems["venous"].m_forest) THEN systems
    ELSE [create_attrs(systems, "venous", systems["arterial"].m_killed_attr)
            EXCEPT !["arterial"].m_killed_attr = << >>]

\* synthesizer::sample_attraction on the points the domain returned
RECURSIVE sample_attraction(_, _, _)
sample_attraction(systems, params, points) ==
    IF points = << >> THEN systems
    ELSE sample_attraction(try_attr(systems, params, "arterial", Head(points)),
                           params, Tail(points))

-----------------------------------------------------------------------------
(* step_closest *)

\* the nodes in range with the joints kept
closest_eligible_with_joints(systems, sys, params, p) ==
    node_range(systems[sys].m_node_search, p, params.m_system[sys].m_influence_attr)

\* the nodes among which min_node is taken: in range of p and not a joint
closest_eligible(systems, sys, params, p) ==
    {h \in node_range(systems[sys].m_node_search, p, params.m_system[sys].m_influence_attr) :
        ~is_joint(NodeOf(systems, h))}

\* the search for min_node without the comparison of distances
closest_min_nodes_any(systems, sys, params, p) ==
    closest_eligible(systems, sys, params, p)

\* the nodes min_node can be: the loop keeps the first node of smallest
\* distance in the order the range query returned them, which the index
\* leaves open, so every node of smallest distance can be the one
closest_min_nodes(systems, sys, params, p) ==
    LET nodes == closest_eligible(systems, sys, params, p)
        distance(h) == length(fsub(p, NodeOf(systems, h).m_pos))
    IN  {h \in nodes : \A g \in nodes : ~flt(distance(g), distance(h))}

\* angle between the direction parent -> node and the direction node -> p
parent_angle(systems, h, p) ==
    LET node == NodeOf(systems, h)
        parent == TreeOf(systems, node.m_tree)[node.parent]
        d_parent == normalize(fsub(node.m_pos, parent.m_pos))
        d_attr == normalize(fsub(p, node.m_pos))
    IN  acos_degrees(dot(d_parent, d_attr))

\* |murray_angles(parent_radius, child_0.radius, term_radius).second| of an
\* intermediate node
perfect_angle(systems, sett, h) ==
    LET node == NodeOf(systems, h)
        child_0 == TreeOf(systems, node.m_tree)[node.children[1]]
        parent_radius == murray_radius(child_0.m_radius, sett.m_term_radius, sett.m_bif_index)
    IN  Abs(murray_angles(parent_radius, child_0.m_radius, sett.m_term_radius)[2])

\* step_closest without the perception-volume filters
perception_pass_everything(systems, sett, h, p) == TRUE

\* the perception-volume filters: p passes for min_node
perception_pass(systems, sett, h, p) ==
    LET node == NodeOf(systems, h)
        angle == parent_angle(systems, h, p)
        leaf_reject == ~is_root(node) /\ ~is_inter(node)
                       /\ fgt(fmul(F(2), angle), F(sett.m_percept_vol))
        inter_reject == ~is_root(node) /\ is_inter(node)
                        /\ fgt(fmul(F(2), fabs(fsub(angle, F(perfect_angle(systems, sett, h))))),
                               F(sett.m_percept_vol))
    IN  ~leaf_reject /\ ~inter_reject

\* attr_map[min_node].push_back(p)
map_push(map, h, p) ==
    IF h \in DOMAIN map THEN [map EXCEPT ![h] = Append(@, p)]
    ELSE [g \in DOMAIN map \cup {h} |-> IF g = h THEN <<p>> ELSE map[g]]

\* the traversal of the attraction index in the order `order`: the maps it
\* can build
RECURSIVE closest_traverse(_, _, _, _, _, _)
closest_traverse(systems, sys, params, sett, order, map) ==
    IF order = << >> THEN {map}
    ELSE LET p == Head(order)
             mins == closest_min_nodes(systems, sys, params, p)
         IN  IF mins = {}
             THEN closest_traverse(systems, sys, params, sett, Tail(order), map)
             ELSE UNION {closest_traverse(systems, sys, params, sett, Tail(order),
                            IF perception_pass(systems, sett, h, p)
                            THEN map_push(map, h, p) ELSE map) : h \in mins}

\* the orders in which traverse() can visit the attractions
traverse_orders(index) ==
    {[i \in 1..Len(index) |-> index[f[i]]] : f \in Permutations(1..Len(index))}

\* synthesizer::step_closest: the attr_maps it can fill
step_closest(systems, params, settings, sys) ==
    UNION {closest_traverse(systems, sys, params, settings.m_system[sys], order, EmptyMap) :
              order \in traverse_orders(systems[sys].m_attr_search)}

-----------------------------------------------------------------------------
(* step_growth *)

\* the keys of attr_map in the order the loops over it visit them
RECURSIVE map_keys(_)
map_keys(keys) ==
    IF keys = {} THEN << >>
    ELSE LET first == CHOOSE h \in keys :
                        \A g \in keys : h[2] < g[2] \/ (h[2] = g[2] /\ h[3] <= g[3])
         IN  <<first>> \o map_keys(keys \ {first})

\* sum of normalize(att.m_pos - node.m_pos) over the list
RECURSIVE sum_directions(_, _)
sum_directions(pos, attr_list) ==
    IF attr_list = << >> THEN F(0)
    ELSE fadd(sum_directions(pos, Tail(attr_list)), normalize(fsub(Head(attr_list), pos)))

\* direction parent -> node of a node that is not a root
parent_direction(systems, h) ==
    LET node == NodeOf(systems, h)
        parent == TreeOf(systems, node.m_tree)[node.parent]
    IN  normalize(fsub(node.m_pos, parent.m_pos))

\* the bifurcation flag without the test of the sign of bif_thresh
bifurcation_preferred_any_thresh(systems, sett, h, attr_list) ==
    LET node == NodeOf(systems, h)
        d_parent == parent_direction(systems, h)
        n == Len(attr_list)
        angles == [i \in 1..n |->
                    acos_degrees(dot(d_parent, normalize(fsub(attr_list[i], node.m_pos))))]
        vals == [i \in 1..n |-> Val(angles[i])]
        squares == [i \in 1..n |-> Val(angles[i]) * Val(angles[i])]
    IN  /\ ~is_root(node)
        /\ is_leaf(node) /\ n > 1
        /\ \A i \in 1..n : ~IsNaN(angles[i])
        /\ n * SumSeq(squares) - SumSeq(vals) * SumSeq(vals)
              >= n * sett.m_bif_thresh * sett.m_bif_thresh

\* the bifurcation flag: sd >= bif_thresh, with sd = sqrt(sum (angle - mean)^2),
\* compared as N * sum(angle^2) - (sum angle)^2 >= N * bif_thresh^2
bifurcation_preferred(systems, sett, h, attr_list) ==
    LET node == NodeOf(systems, h)
        d_parent == parent_direction(systems, h)
        n == Len(attr_list)
        angles == [i \in 1..n |->
                    acos_degrees(dot(d_parent, normalize(fsub(attr_list[i], node.m_pos))))]
        vals == [i \in 1..n |-> Val(angles[i])]
        squares == [i \in 1..n |-> Val(angles[i]) * Val(angles[i])]
    IN  /\ ~is_root(node)
        /\ is_leaf(node) /\ n > 1 /\ sett.m_bif_thresh >= 0
        /\ \A i \in 1..n : ~IsNaN(angles[i])
        /\ n * SumSeq(squares) - SumSeq(vals) * SumSeq(vals)
              >= n * sett.m_bif_thresh * sett.m_bif_thresh

\* the growth direction: the mean attraction direction, blended with the
\* bias direction when the node is not a root
growth_direction(systems, sett, h, attr_list) ==
    LET node == NodeOf(systems, h)
        dir == normalize(sum_directions(node.m_pos, attr_list))
        d_parent == parent_direction(systems, h)
        normal == normalize(cross(d_parent, dir))
        bias == IF is_leaf(node) THEN d_parent
                ELSE IF is_inter(node)
                THEN normalize(rotate(d_parent, F(perfect_angle(systems, sett, h)), normal))
                ELSE dir
    IN  IF is_root(node) THEN dir
        ELSE normalize(fadd(fmul(F(1 - sett.m_parent_inertia), dir),
                            fmul(F(sett.m_parent_inertia), bias)))

\* recalc_radii without the joint branch
recalc_radii_inter_only(tree, sett, id) ==
    IF is_inter(tree[id])
    THEN [tree EXCEPT ![id].m_radius = tree[tree[id].children[1]].m_radius]
    ELSE tree

\* the radius of one node from its children (recalc_radii)
recalc_radii(tree, sett, id) ==
    IF is_inter(tree[id])
    THEN [tree EXCEPT ![id].m_radius = tree[tree[id].children[1]].m_radius]
    ELSE IF is_joint(tree[id])
    THEN [tree EXCEPT ![id].m_radius =
            murray_radius(tree[tree[id].children[1]].m_radius,
                          tree[tree[id].children[2]].m_radius, sett.m_bif_index)]
    ELSE tree

\* tree::to_root(recalc_radii, id): the node, then its parent, up to the root
RECURSIVE to_root(_, _, _)
to_root(tree, sett, id) ==
    LET done == recalc_radii(tree, sett, id)
    IN  IF is_root(done[id]) THEN done ELSE to_root(done, sett, done[id].parent)

\* the systems with the tree behind a tree pointer replaced
with_tree(systems, tref, tree) ==
    [systems EXCEPT ![tref[1]].m_forest[tref[2]] = tree]

\* a bifurcation from a leaf: two children, the radii, the index
grow_bifurcation(systems, sys, params, sett, h, attr_list) ==
    LET node == NodeOf(systems, h)
        d_parent == parent_direction(systems, h)
        radius_l == sett.m_term_radius
        radius_r == sett.m_term_radius
        parent_radius == murray_radius(radius_l, radius_r, sett.m_bif_index)
        angles == murray_angles(parent_radius, radius_l, radius_r)
        line == bets_line_fit(attr_list)
        to_centroid == normalize(F(line.sum - line.n * Val(node.m_pos)))
        up == cross(to_centroid, line.axis)
        left == normalize(rotate(d_parent, F(angles[1]), up))
        right == normalize(rotate(d_parent, F(angles[2]), up))
        tref == node.m_tree
        tree == TreeOf(systems, tref)
        pos_l == fadd(node.m_pos, fmul(F(params.m_growth_distance), normalize(left)))
        pos_r == fadd(node.m_pos, fmul(F(params.m_growth_distance), normalize(right)))
        tree_l == tree_create_node(tree, h[3], pos_l, radius_l, tref)
        tree_r == tree_create_node(tree_l, h[3], pos_r, radius_r, tref)
        end_l == <<tref[1], tref[2], Len(tree) + 1>>
        end_r == <<tref[1], tref[2], Len(tree) + 2>>
    IN  IF ~create_node_allowed(tree, h[3]) \/ ~create_node_allowed(tree_l, h[3])
        THEN [systems |-> systems, ok |-> FALSE]
        ELSE [systems |->
                [with_tree(systems, tref, to_root(tree_r, sett, h[3])) EXCEPT
                    ![sys].m_node_search =
                        index_insert_node(index_insert_node(@, pos_l, end_l), pos_r, end_r)],
              ok |-> TRUE]

\* a sprout whose new node is not entered into the node index
grow_sprout_unindexed(systems, sys, params, sett, h, dir) ==
    LET node == NodeOf(systems, h)
        tref == node.m_tree
        tree == TreeOf(systems, tref)
        pos == fadd(node.m_pos, fmul(F(params.m_growth_distance), normalize(dir)))
        grown == tree_create_node(tree, h[3], pos, sett.m_term_radius, tref)
    IN  IF ~create_node_allowed(tree, h[3])
        THEN [systems |-> systems, ok |-> FALSE]
        ELSE [systems |-> with_tree(systems, tref, to_root(grown, sett, h[3])),
              ok |-> TRUE]

\* an elongation or a lateral sprout: one child, the radii, the index
grow_sprout(systems, sys, params, sett, h, dir) ==
    LET node == NodeOf(systems, h)
        tref == node.m_tree
        tree == TreeOf(systems, tref)
        pos == fadd(node.m_pos, fmul(F(params.m_growth_distance), normalize(dir)))
        grown == tree_create_node(tree, h[3], pos, sett.m_term_radius, tref)
        end == <<tref[1], tref[2], Len(tree) + 1>>
    IN  IF ~create_node_allowed(tree, h[3])
        THEN [systems |-> systems, ok |-> FALSE]
        ELSE [systems |->
                [with_tree(systems, tref, to_root(grown, sett, h[3])) EXCEPT
                    ![sys].m_node_search = index_insert_node(@, pos, end)],
              ok |-> TRUE]

\* one growth event where only_leaf_development keeps intermediate nodes
\* from sprouting
grow_node_leaves_only(systems, sys, params, sett, h, attr_list) ==
    LET node == NodeOf(systems, h)
        bifurcation == bifurcation_preferred(systems, sett, h, attr_list)
    IN  IF is_leaf(node) /\ bifurcation
        THEN grow_bifurcation(systems, sys, params, sett, h, attr_list)
        ELSE IF ~sett.m_only_leaf_development \/ is_leaf(node)
        THEN IF is_root(node) /\ is_inter(node)
             THEN [systems |-> systems, ok |-> TRUE]
             ELSE grow_sprout(systems, sys, params, sett, h,
                              growth_direction(systems, sett, h, attr_list))
        ELSE [systems |-> systems, ok |-> TRUE]

\* one growth event without the skip of a root that already has a child
grow_node_sprouting_roots(systems, sys, params, sett, h, attr_list) ==
    LET node == NodeOf(systems, h)
        bifurcation == bifurcation_preferred(systems, sett, h, attr_list)
    IN  IF is_leaf(node) /\ bifurcation
        THEN grow_bifurcation(systems, sys, params, sett, h, attr_list)
        ELSE IF ~sett.m_only_leaf_development \/ (is_leaf(node) \/ is_inter(node))
        THEN grow_sprout(systems, sys, params, sett, h,
                         growth_direction(systems, sett, h, attr_list))
        ELSE [systems |-> systems, ok |-> TRUE]

\* the body of the loop of step_growth for one (node, attr_list)
grow_node(systems, sys, params, sett, h, attr_list) ==
    LET node == NodeOf(systems, h)
        bifurcation == bifurcation_preferred(systems, sett, h, attr_list)
    IN  IF is_leaf(node) /\ bifurcation
        THEN grow_bifurcation(systems, sys, params, sett, h, attr_list)
        ELSE IF ~sett.m_only_leaf_development \/ (is_leaf(node) \/ is_inter(node))
        THEN IF is_root(node) /\ is_inter(node)
             THEN [systems |-> systems, ok |-> TRUE]
             ELSE grow_sprout(systems, sys, params, sett, h,
                              growth_direction(systems, sett, h, attr_list))
        ELSE [systems |-> systems, ok |-> TRUE]

\* synthesizer::step_growth over the keys still to visit; it ends at the
\* first create_node whose precondition fails
RECURSIVE growth_loop(_, _, _, _, _, _)
growth_loop(systems, sys, params, sett, map, keys) ==
    IF keys = << >> THEN [systems |-> systems, ok |-> TRUE]
    ELSE LET one == grow_node(systems, sys, params, sett, Head(keys), map[Head(keys)])
         IN  IF one.ok
             THEN growth_loop(one.systems, sys, params, sett, map, Tail(keys))
             ELSE one

step_growth(systems, params, settings, sys, map) ==
    growth_loop(systems, sys, params.m_system[sys], settings.m_system[sys],
                map, map_keys(DOMAIN map))

-----------------------------------------------------------------------------
(* step_kill *)

\* the inner loop over one attr_list; `nodes` is the vector the range
\* queries append to, declared once per list
RECURSIVE kill_list(_, _, _, _)
kill_list(data, kill_attr, attr_list, nodes) ==
    IF attr_list = << >> THEN data
    ELSE LET p == Head(attr_list)
             found == nodes \cup node_range(data.m_node_search, p, kill_attr)
         IN  IF found = {}
             THEN kill_list(data, kill_attr, Tail(attr_list), found)
             ELSE kill_list([data EXCEPT
                                !.m_attr_search = index_remove_attr(@, p),
                                !.m_killed_attr = Append(@, p)],
                            kill_attr, Tail(attr_list), found)

RECURSIVE kill_loop(_, _, _, _)
kill_loop(data, kill_attr, map, keys) ==
    IF keys = << >> THEN data
    ELSE kill_loop(kill_list(data, kill_attr, map[Head(keys)], {}),
                   kill_attr, map, Tail(keys))

\* synthesizer::step_kill
step_kill(systems, params, sys, map) ==
    [systems EXCEPT ![sys] =
        kill_loop(@, params.m_system[sys].m_kill_attr, map, map_keys(DOMAIN map))]

\* synthesizer::step: the outcomes of step_closest, step_growth and
\* step_kill in sequence; on an empty forest it returns at once
step(systems, params, settings, sys) ==
    IF forest_empty(systems[sys].m_forest)
    THEN {[systems |-> systems, ok |-> TRUE]}
    ELSE {LET grown == step_growth(systems, params, settings, sys, map)
          IN  IF grown.ok
              THEN [systems |-> step_kill(grown.systems, params, sys, map), ok |-> TRUE]
              ELSE grown :
             map \in step_closest(systems, params, settings, sys)}

-----------------------------------------------------------------------------
(* Inputs: the settings the client can set, the points the domain can      *)
(* return, the positions roots are created at                              *)

BaseSystem ==
    [m_birth_attr |-> 24, m_birth_node |-> 24, m_influence_attr |-> 96,
     m_kill_attr |-> 24, m_growth_distance |-> 24, m_term_radius |-> 1,
     m_percept_vol |-> 180, m_bif_thresh |-> -1, m_bif_index |-> 1,
     m_parent_inertia |-> 1, m_only_leaf_development |-> FALSE,
     m_grow_func |-> [m_type |-> "none", m_value |-> Q(0, 1)]]

\* domain growth: linear for the arterial, exponential for the venous system
GrowingSystems ==
    [sys \in Sys |->
        [BaseSystem EXCEPT !.m_grow_func =
            [m_type |-> IF sys = "arterial" THEN "linear" ELSE "exponential",
             m_value |-> Q(1, 1)]]]

\* no domain growth, the whole sphere perceived, bifurcations enabled
BranchingSystems ==
    [sys \in Sys |->
        [BaseSystem EXCEPT !.m_percept_vol = 360, !.m_bif_thresh = 90,
                           !.m_birth_node = 0, !.m_parent_inertia = 0,
                           !.m_only_leaf_development = (sys = "venous")]]

SettingsSet ==
    {[m_steps |-> k, m_sample_count |-> IF systems = GrowingSystems THEN 1 ELSE 2,
      m_system |-> systems] :
        k \in 0..MaxSteps, systems \in {GrowingSystems, BranchingSystems}}

\* a grow_func with a negative value: the arterial scaling halves in each
\* iteration
ShrinkingSystems ==
    [sys \in Sys |->
        [BaseSystem EXCEPT !.m_grow_func =
            IF sys = "arterial" THEN [m_type |-> "exponential", m_value |-> Q(-1, 2)]
            ELSE @]]

ShrinkingSettingsSet ==
    {[m_steps |-> k, m_sample_count |-> 1, m_system |-> ShrinkingSystems] : k \in 0..MaxSteps}

\* the whole sphere perceived and two samples in each iteration, with
\* bifurcations enabled or disabled
SproutingSystems ==
    [sys \in Sys |-> [BranchingSystems[sys] EXCEPT !.m_bif_thresh = -1]]

BifurcationSettingsSet ==
    {[m_steps |-> k, m_sample_count |-> 2, m_system |-> systems] :
        k \in 0..MaxSteps, systems \in {SproutingSystems, BranchingSystems}}

DomainPoints == {F(36), F(96)}

\* a client creates at most one root at each of these positions
RootPoints == {F(0)}

\* the positions the client offers to try_attr
AttrPoints == {F(0), F(36)}

\* a forest built by the client and handed to set_forest: one tree, a chain
\* root - intermediate - leaf that obeys the radius law
ChainForest ==
    << << [m_pos |-> F(0), m_radius |-> 1, m_tree |-> <<"client", 1>>,
           parent |-> 0, children |-> <<2>>],
          [m_pos |-> F(24), m_radius |-> 1, m_tree |-> <<"client", 1>>,
           parent |-> 1, children |-> <<3>>],
          [m_pos |-> F(48), m_radius |-> 1, m_tree |-> <<"client", 1>>,
           parent |-> 2, children |-> << >>] >> >>

\* the forests set_forest is called with
ForestArguments ==
    {get_forest(sys) : sys \in Sys} \cup {[kind |-> "value", forest |-> ChainForest]}

-----------------------------------------------------------------------------
(* State machine *)

At(a) == [at |-> a, sys |-> "none"]
AtSys(a, sys) == [at |-> a, sys |-> sys]

NoEntry == [params |-> << >>, systems |-> << >>]

\* the state after synthesizer::synthesizer: two empty systems; the runtime
\* parameters hold no distances before the first run
InitWith(settings) ==
    /\ m_settings \in settings
    /\ m_params = [m_curr_step |-> 0,
                   m_system |-> [i \in Sys |->
                       [m_scaling |-> Q(1, 1), m_birth_attr |-> 0, m_birth_node |-> 0,
                        m_influence_attr |-> 0, m_kill_attr |-> 0,
                        m_growth_distance |-> 0]]]
    /\ m_systems = [i \in Sys |-> system_data_clear(<< >>)]
    /\ m_is_running = FALSE
    /\ pc = At("idle")
    /\ attr_map = EmptyMap
    /\ aborted = FALSE
    /\ hist = [asked |-> 0, stop_in_run |-> FALSE, stop_after_store |-> FALSE,
               entry |-> NoEntry, samples |-> << >>, iters |-> 0, phases |-> << >>]

Init == InitWith(SettingsSet)

Idle == pc = At("idle") /\ ~aborted

\* get_settings().m_steps = steps
SetSteps(steps) ==
    /\ Idle
    /\ m_settings' = [m_settings EXCEPT !.m_steps = steps]
    /\ UNCHANGED <<m_params, m_systems, m_is_running, pc, attr_map, aborted, hist>>

SetForest(sys, other) ==
    /\ Idle
    /\ m_systems' = set_forest(m_systems, sys, other)
    /\ UNCHANGED <<m_settings, m_params, m_is_running, pc, attr_map, aborted, hist>>

CreateRoot(sys, pos) ==
    /\ Idle
    /\ \A t \in 1..Len(m_systems[sys].m_forest) : m_systems[sys].m_forest[t][1].m_pos # pos
    /\ m_systems' = create_root(m_systems, m_settings, sys, pos)
    /\ UNCHANGED <<m_settings, m_params, m_is_running, pc, attr_map, aborted, hist>>

\* try_attr(sys, pos) between runs, for a position not yet an attraction
TryAttr(sys, pos) ==
    /\ Idle
    /\ \A i \in 1..Len(m_systems[sys].m_attr_search) : m_systems[sys].m_attr_search[i] # pos
    /\ m_systems' = try_attr(m_systems, m_params, sys, pos)
    /\ UNCHANGED <<m_settings, m_params, m_is_running, pc, attr_map, aborted, hist>>

\* run() without the test of the arterial forest
RunEnter_without_forest_test ==
    /\ Idle
    /\ hist.asked + m_settings.m_steps <= MaxSteps
    /\ m_params' = init_runtime_params(m_params, m_settings)
    /\ pc' = At("store")
    /\ hist' = [hist EXCEPT !.asked = @ + m_settings.m_steps,
                            !.stop_in_run = FALSE, !.stop_after_store = FALSE,
                            !.entry = [params |-> m_params, systems |-> m_systems],
                            !.iters = 0, !.phases = << >>]
    /\ UNCHANGED <<m_settings, m_systems, m_is_running, attr_map, aborted>>

\* run(), up to init_runtime_params
RunEnter ==
    /\ Idle
    /\ hist.asked + m_settings.m_steps <= MaxSteps
    /\ IF forest_empty(m_systems["arterial"].m_forest)
       THEN /\ pc' = At("return")
            /\ hist' = [hist EXCEPT !.entry = [params |-> m_params, systems |-> m_systems]]
            /\ UNCHANGED m_params
       ELSE /\ m_params' = init_runtime_params(m_params, m_settings)
            /\ pc' = At("store")
            /\ hist' = [hist EXCEPT !.asked = @ + m_settings.m_steps,
                                    !.stop_in_run = FALSE, !.stop_after_store = FALSE,
                                    !.entry = [params |-> m_params, systems |-> m_systems],
                                    !.iters = 0, !.phases = << >>]
    /\ UNCHANGED <<m_settings, m_systems, m_is_running, attr_map, aborted>>

\* the return of run() on an empty arterial forest
RunReturn ==
    /\ pc = At("return")
    /\ pc' = At("idle")
    /\ hist' = [hist EXCEPT !.entry = NoEntry]
    /\ UNCHANGED <<m_settings, m_params, m_systems, m_is_running, attr_map, aborted>>

\* m_is_running.store(true)
RunStore ==
    /\ pc = At("store")
    /\ m_is_running' = TRUE
    /\ pc' = At("loop")
    /\ UNCHANGED <<m_settings, m_params, m_systems, attr_map, aborted, hist>>

\* the loop condition without the read of m_is_running
RunLoop_ignoring_flag ==
    /\ pc = At("loop")
    /\ m_params' = [m_params EXCEPT !.m_curr_step = (@ + 1) % CounterModulus]
    /\ IF m_params.m_curr_step < m_settings.m_steps
       THEN pc' = At("sample")
       ELSE pc' = At("exit")
    /\ hist' = [hist EXCEPT !.phases = << >>]
    /\ UNCHANGED <<m_settings, m_systems, m_is_running, attr_map, aborted>>

\* the loop condition with the counter incremented before the comparison
RunLoop_incrementing_first ==
    /\ pc = At("loop")
    /\ m_params' = [m_params EXCEPT !.m_curr_step = (@ + 1) % CounterModulus]
    /\ IF (m_params.m_curr_step + 1) % CounterModulus < m_settings.m_steps /\ m_is_running
       THEN pc' = At("sample")
       ELSE pc' = At("exit")
    /\ hist' = [hist EXCEPT !.phases = << >>]
    /\ UNCHANGED <<m_settings, m_systems, m_is_running, attr_map, aborted>>

\* the loop condition (m_curr_step++ < m_steps) && m_is_running.load()
RunLoop ==
    /\ pc = At("loop")
    /\ m_params' = [m_params EXCEPT !.m_curr_step = (@ + 1) % CounterModulus]
    /\ IF m_params.m_curr_step < m_settings.m_steps /\ m_is_running
       THEN pc' = At("sample")
       ELSE pc' = At("exit")
    /\ hist' = [hist EXCEPT !.phases = << >>]
    /\ UNCHANGED <<m_settings, m_systems, m_is_running, attr_map, aborted>>

\* sample_attraction with the points domain::samples returned
RunSample ==
    /\ pc = At("sample")
    /\ \E points \in [1..m_settings.m_sample_count -> DomainPoints] :
          /\ m_systems' = sample_attraction(m_systems, m_params, points)
          /\ hist' = [hist EXCEPT !.samples = points, !.iters = @ + 1,
                                  !.phases = Append(@, <<"sample_attraction">>)]
    /\ pc' = AtSys("closest", "arterial")
    /\ UNCHANGED <<m_settings, m_params, m_is_running, attr_map, aborted>>

\* the loop body without the call of combine_systems
AfterStep_without_combine(sys) ==
    IF sys = "arterial" THEN AtSys("closest", "venous") ELSE AtSys("domain_growth", "arterial")

AfterStep(sys) ==
    IF sys = "arterial" THEN At("combine") ELSE AtSys("domain_growth", "arterial")

\* step(sys): the early return on an empty forest, else step_closest
StepClosest(sys) ==
    /\ pc = AtSys("closest", sys)
    /\ IF forest_empty(m_systems[sys].m_forest)
       THEN /\ pc' = AfterStep(sys)
            /\ hist' = [hist EXCEPT !.samples = << >>, !.phases = Append(@, <<"step", sys>>)]
            /\ UNCHANGED attr_map
       ELSE /\ attr_map' \in step_closest(m_systems, m_params, m_settings, sys)
            /\ pc' = AtSys("growth", sys)
            /\ hist' = [hist EXCEPT !.samples = << >>]
    /\ UNCHANGED <<m_settings, m_params, m_systems, m_is_running, aborted>>

StepGrowth(sys) ==
    /\ pc = AtSys("growth", sys)
    /\ \E grown \in {step_growth(m_systems, m_params, m_settings, sys, attr_map)} :
           IF grown.ok
           THEN /\ m_systems' = grown.systems
                /\ pc' = AtSys("kill", sys)
                /\ UNCHANGED aborted
           ELSE /\ aborted' = TRUE
                /\ pc' = At("aborted")
                /\ UNCHANGED m_systems
    /\ UNCHANGED <<m_settings, m_params, m_is_running, attr_map, hist>>

StepKill(sys) ==
    /\ pc = AtSys("kill", sys)
    /\ m_systems' = step_kill(m_systems, m_params, sys, attr_map)
    /\ attr_map' = EmptyMap
    /\ pc' = AfterStep(sys)
    /\ hist' = [hist EXCEPT !.phases = Append(@, <<"step", sys>>)]
    /\ UNCHANGED <<m_settings, m_params, m_is_running, aborted>>

CombineSystems ==
    /\ pc = At("combine")
    /\ m_systems' = combine_systems(m_systems)
    /\ pc' = AtSys("closest", "venous")
    /\ hist' = [hist EXCEPT !.phases = Append(@, <<"combine_systems">>)]
    /\ UNCHANGED <<m_settings, m_params, m_is_running, attr_map, aborted>>

DomainGrowth(sys) ==
    /\ pc = AtSys("domain_growth", sys)
    /\ m_params' = domain_growth(m_params, m_settings, sys)
    /\ pc' = IF sys = "arterial" THEN AtSys("domain_growth", "venous") ELSE At("loop")
    /\ hist' = [hist EXCEPT !.phases = Append(@, <<"domain_growth", sys>>)]
    /\ UNCHANGED <<m_settings, m_systems, m_is_running, attr_map, aborted>>

\* the return without m_is_running.store(false)
RunExit_keeping_flag ==
    /\ pc = At("exit")
    /\ pc' = At("idle")
    /\ hist' = [hist EXCEPT !.entry = NoEntry, !.iters = 0]
    /\ UNCHANGED <<m_settings, m_params, m_systems, m_is_running, attr_map, aborted>>

\* m_is_running.store(false) and the return
RunExit ==
    /\ pc = At("exit")
    /\ m_is_running' = FALSE
    /\ pc' = At("idle")
    /\ hist' = [hist EXCEPT !.entry = NoEntry, !.iters = 0]
    /\ UNCHANGED <<m_settings, m_params, m_systems, attr_map, aborted>>

\* stop() on another thread while run() executes
Stop ==
    /\ pc \notin {At("idle"), At("aborted")}
    /\ m_is_running \/ pc = At("store")
    /\ m_is_running' = FALSE
    /\ hist' = [hist EXCEPT !.stop_in_run = TRUE,
                            !.stop_after_store = @ \/ pc # At("store")]
    /\ UNCHANGED <<m_settings, m_params, m_systems, pc, attr_map, aborted>>

Next ==
    \/ \E steps \in 0..MaxSteps : SetSteps(steps)
    \/ \E sys \in Sys, other \in ForestArguments : SetForest(sys, other)
    \/ \E sys \in Sys, pos \in RootPoints : CreateRoot(sys, pos)
    \/ RunEnter
    \/ RunReturn
    \/ RunStore
    \/ RunLoop
    \/ RunSample
    \/ \E sys \in Sys : StepClosest(sys)
    \/ \E sys \in Sys : StepGrowth(sys)
    \/ \E sys \in Sys : StepKill(sys)
    \/ CombineSystems
    \/ \E sys \in Sys : DomainGrowth(sys)
    \/ RunExit

\* a client that calls the engine from one thread
Spec == Init /\ [][Next]_vars

\* a client that creates roots and runs the engine while another thread may
\* call stop()
NextCancel ==
    \/ \E sys \in Sys, pos \in RootPoints : CreateRoot(sys, pos)
    \/ RunEnter
    \/ RunReturn
    \/ RunStore
    \/ RunLoop
    \/ RunSample
    \/ \E sys \in Sys : StepClosest(sys)
    \/ \E sys \in Sys : StepGrowth(sys)
    \/ \E sys \in Sys : StepKill(sys)
    \/ CombineSystems
    \/ \E sys \in Sys : DomainGrowth(sys)
    \/ RunExit
    \/ Stop

SpecCancel == Init /\ [][NextCancel]_vars

\* a client that creates roots, offers attractions itself and runs the engine
NextAttr ==
    \/ \E sys \in Sys, pos \in RootPoints : CreateRoot(sys, pos)
    \/ \E sys \in Sys, pos \in AttrPoints : TryAttr(sys, pos)
    \/ RunEnter
    \/ RunReturn
    \/ RunStore
    \/ RunLoop
    \/ RunSample
    \/ \E sys \in Sys : StepClosest(sys)
    \/ \E sys \in Sys : StepGrowth(sys)
    \/ \E sys \in Sys : StepKill(sys)
    \/ CombineSystems
    \/ \E sys \in Sys : DomainGrowth(sys)
    \/ RunExit

SpecAttr == Init /\ [][NextAttr]_vars

\* the steps of run() once it has been entered
RunProgress ==
    \/ RunReturn
    \/ RunStore
    \/ RunLoop
    \/ RunSample
    \/ \E sys \in Sys : StepClosest(sys)
    \/ \E sys \in Sys : StepGrowth(sys)
    \/ \E sys \in Sys : StepKill(sys)
    \/ CombineSystems
    \/ \E sys \in Sys : DomainGrowth(sys)
    \/ RunExit

\* a client that creates roots and runs the engine; the thread inside run()
\* keeps executing
NextRun ==
    \/ \E sys \in Sys, pos \in RootPoints : CreateRoot(sys, pos)
    \/ RunEnter
    \/ RunProgress

\* the positions of the thread that calls run()
Positions ==
    {At(a) : a \in {"idle", "return", "store", "loop", "sample", "combine", "exit", "aborted"}}
    \cup {AtSys(a, sys) : a \in {"closest", "growth", "kill", "domain_growth"}, sys \in Sys}

\* the thread inside run() moves on to its next position
Advance == pc \notin {At("idle"), At("aborted")} /\ pc' \in Positions /\ pc' # pc

SpecRun == Init /\ [][NextRun]_vars /\ WF_pc(Advance)

\* the same client with a grow_func of negative value
SpecShrink == InitWith(ShrinkingSettingsSet) /\ [][NextRun]_vars

\* a client that sets forests, creates roots and runs the engine, with
\* bifurcations enabled or disabled
NextBif ==
    \/ \E sys \in Sys, other \in ForestArguments : SetForest(sys, other)
    \/ \E sys \in Sys, pos \in RootPoints : CreateRoot(sys, pos)
    \/ RunEnter
    \/ RunProgress

SpecBif == InitWith(BifurcationSettingsSet) /\ [][NextBif]_vars

-----------------------------------------------------------------------------
(* Properties *)

\* the positions of the nodes of a system's forest
NodePositions(sys) ==
    {NodeOf(m_systems, h).m_pos : h \in ForestNodes(m_systems[sys].m_forest, sys)}

\* how often pos occurs in a sequence of positions
Count(seq, pos) == Cardinality({i \in 1..Len(seq) : seq[i] = pos})

\* the node index of sys holds exactly the nodes of data's forest, each at
\* its position
IndexMatchesForest(data, sys) ==
    data.m_node_search =
        {[pos |-> data.m_forest[h[2]][h[3]].m_pos, node |-> h] :
            h \in ForestNodes(data.m_forest, sys)}

\* C1: set_forest(sys, get_forest(sys)) leaves the system observably
\* unchanged: the same trees, positions, topology and radii, and the node
\* index holds exactly the forest's nodes.
C1_SetForestOfGetForest ==
    [][\A sys \in Sys :
          SetForest(sys, get_forest(sys)) =>
              /\ m_systems'[sys].m_forest = m_systems[sys].m_forest
              /\ IndexMatchesForest(m_systems'[sys], sys)]_vars

\* the birth predicate as the specification words it: no node of the system
\* within birth_node of pos and no attraction of the system within birth_attr
Admissible(data, distances, pos) ==
    /\ \A t \in 1..Len(data.m_forest) : \A n \in 1..Len(data.m_forest[t]) :
          ~in_range(data.m_forest[t][n].m_pos, pos, distances.m_birth_node)
    /\ \A i \in 1..Len(data.m_attr_search) :
          ~in_range(data.m_attr_search[i], pos, distances.m_birth_attr)

\* the attraction index after offering the positions one by one, each
\* inserted exactly when it is admissible
RECURSIVE Offered(_, _, _)
Offered(data, distances, positions) ==
    IF positions = << >> THEN data.m_attr_search
    ELSE Offered(IF Admissible(data, distances, Head(positions))
                 THEN [data EXCEPT !.m_attr_search = index_insert_attr(@, Head(positions))]
                 ELSE data,
                 distances, Tail(positions))

\* C2: with a non-empty venous forest combine_systems inserts a satisfied
\* arterial position into the venous attraction index only if no venous node
\* lies within the venous birth_node and no venous attraction within the
\* venous birth_attr of it.
C2_CombineGatedByTryAttr ==
    [][pc = At("combine") /\ ~forest_empty(m_systems["venous"].m_forest) =>
          m_systems'["venous"].m_attr_search =
              Offered(m_systems["venous"], m_params.m_system["venous"],
                      m_systems["arterial"].m_killed_attr)]_vars

\* the attractions associated with nodes in the current step
Associated == UNION {{attr_map[h][i] : i \in 1..Len(attr_map[h])} : h \in DOMAIN attr_map}
AssociatedCount(p) ==
    Cardinality({<<h, i>> \in UNION {{<<g, j>> : j \in 1..Len(attr_map[g])} : g \in DOMAIN attr_map} :
                    attr_map[h][i] = p})

\* C3: step_kill removes an associated attraction from the index and appends
\* it to the satisfied list if and only if a node of the system lies within
\* kill_attr of it; an associated attraction with no node in that range
\* stays in the index.
C3_KillIffNodeInRange ==
    [][\A sys \in Sys :
          pc = AtSys("kill", sys) =>
              \A p \in Associated :
                  LET near == \E q \in NodePositions(sys) :
                                  in_range(q, p, m_params.m_system[sys].m_kill_attr)
                      removed == Count(m_systems[sys].m_attr_search, p)
                                 - Count(m_systems'[sys].m_attr_search, p)
                      appended == Count(m_systems'[sys].m_killed_attr, p)
                                  - Count(m_systems[sys].m_killed_attr, p)
                  IN  IF near
                      THEN removed = AssociatedCount(p) /\ appended = AssociatedCount(p)
                      ELSE removed = 0 /\ appended = 0]_vars

\* C4: after every call of combine_systems the arterial satisfied list is
\* empty, whether or not the venous forest has a tree.
C4_SatisfiedListClearedByCombine ==
    pc = AtSys("closest", "venous") => m_systems["arterial"].m_killed_attr = << >>

\* the runtime distances of every system equal its settings and its scaling
\* is 1
ParamsAtSettings ==
    \A sys \in Sys :
        /\ m_params.m_system[sys].m_scaling = Q(1, 1)
        /\ m_params.m_system[sys].m_birth_attr = m_settings.m_system[sys].m_birth_attr
        /\ m_params.m_system[sys].m_birth_node = m_settings.m_system[sys].m_birth_node
        /\ m_params.m_system[sys].m_influence_attr = m_settings.m_system[sys].m_influence_attr
        /\ m_params.m_system[sys].m_kill_attr = m_settings.m_system[sys].m_kill_attr
        /\ m_params.m_system[sys].m_growth_distance = m_settings.m_system[sys].m_growth_distance

\* a run with steps = 0 has left its loop
ZeroStepRunDone == pc = At("exit") /\ m_settings.m_steps = 0

\* C5 as stated, for a call that follows an earlier run: a run with
\* steps = 0 is a no-op; forests, indices, satisfied lists, the step counter
\* and every runtime parameter are as before the call.
C5_ZeroStepRunIsNoOp ==
    ZeroStepRunDone /\ hist.entry.params.m_curr_step > 0 =>
        /\ m_systems = hist.entry.systems
        /\ m_params = hist.entry.params

\* C5: a run with steps = 0 leaves forests, node indices, attraction indices
\* and satisfied lists as they were; on a non-empty arterial forest it sets
\* the runtime parameters back to the settings with scaling 1 and leaves the
\* step counter at 1.
C5_ZeroStepRunResetsParams ==
    ZeroStepRunDone =>
        /\ m_systems = hist.entry.systems
        /\ m_params.m_curr_step = 1
        /\ ParamsAtSettings

\* a run with steps = 0 that followed a run with domain growth
C5_Witness ==
    /\ ZeroStepRunDone
    /\ qless(Q(1, 1), hist.entry.params.m_system["arterial"].m_scaling)
    /\ hist.entry.params.m_curr_step > 1

\* C6 as stated: once the is-running flag was cleared from outside during
\* run(), no further iteration is started.
C6_StopEndsRun ==
    [][hist.stop_in_run => ~(pc = At("loop") /\ pc' = At("sample"))]_vars

\* the phases of one iteration
InIteration == pc.at \in {"sample", "closest", "growth", "kill", "combine", "domain_growth"}

\* C6: once the is-running flag was cleared from outside after run() had set
\* it, the iteration in progress goes through its remaining phases, the next
\* loop test leaves the loop, and no further iteration is started; a clear
\* that comes before run() sets the flag is overwritten.
C6_StopAfterStoreEndsRun ==
    [][/\ hist.stop_after_store =>
          /\ ~(pc = At("loop") /\ pc' = At("sample"))
          /\ pc = At("loop") /\ pc' # pc => pc' = At("exit")
          /\ InIteration /\ pc' # pc => pc'.at \in {"closest", "growth", "kill", "combine",
                                                    "domain_growth", "loop"}
       /\ hist.stop_in_run /\ pc = At("store") /\ pc' = At("loop") => m_is_running']_vars

\* a run left its loop after a stop with fewer iterations than asked
C6_Witness ==
    /\ pc = At("exit")
    /\ hist.stop_after_store
    /\ m_params.m_curr_step <= m_settings.m_steps
    /\ \E h \in ForestNodes(m_systems["arterial"].m_forest, "arterial") : h[3] > 1

\* C7: the node index of each system holds exactly the nodes of the trees of
\* its forest, each at its position.
C7_NodeIndexIsForest ==
    \A sys \in Sys : IndexMatchesForest(m_systems[sys], sys)

\* a forest that was set from a client's forest and has grown by a run
C7_Witness ==
    \E sys \in Sys :
        /\ pc = At("idle")
        /\ m_params.m_curr_step > 0
        /\ \E h \in ForestNodes(m_systems[sys].m_forest, sys) :
              /\ h[3] > Len(ChainForest[1])
              /\ Len(m_systems[sys].m_forest[h[2]]) > Len(ChainForest[1])
              /\ m_systems[sys].m_forest[h[2]][2].m_pos = ChainForest[1][2].m_pos

\* C8: no create_node fails its precondition, and every node has 0, 1 or 2
\* children.
C8_AtMostTwoChildren ==
    /\ ~aborted
    /\ \A sys \in Sys : \A h \in ForestNodes(m_systems[sys].m_forest, sys) :
          Len(NodeOf(m_systems, h).children) <= 2

\* the growth phase begins with a joint among the nodes nearest to an
\* attraction of the system
C8_Witness ==
    \E sys \in Sys :
        /\ pc = AtSys("growth", sys)
        /\ \E h \in ForestNodes(m_systems[sys].m_forest, sys) :
              /\ is_joint(NodeOf(m_systems, h))
              /\ \E i \in 1..Len(m_systems[sys].m_attr_search) :
                    LET p == m_systems[sys].m_attr_search[i]
                    IN  /\ in_range(NodeOf(m_systems, h).m_pos, p,
                                    m_params.m_system[sys].m_influence_attr)
                        /\ \A q \in NodePositions(sys) :
                              ~IsNaN(q) => in_range(NodeOf(m_systems, h).m_pos, p,
                                                    Abs(Val(q) - Val(p)))

\* the radius law at one node
RadiusLawAt(tree, sett, n) ==
    IF Len(tree[n].children) = 0 THEN tree[n].m_radius = sett.m_term_radius
    ELSE IF Len(tree[n].children) = 1 THEN tree[n].m_radius = tree[tree[n].children[1]].m_radius
    ELSE tree[n].m_radius = tree[tree[n].children[1]].m_radius + tree[tree[n].children[2]].m_radius

\* C9: every leaf has radius term_radius, every node with one child the
\* radius of that child, every joint the Murray radius of its two children
\* (their sum, bif_index being 1), for all nodes of all trees.
C9_RadiusLaw ==
    \A sys \in Sys : \A t \in 1..Len(m_systems[sys].m_forest) :
        \A n \in 1..Len(m_systems[sys].m_forest[t]) :
            RadiusLawAt(m_systems[sys].m_forest[t], m_settings.m_system[sys], n)

\* a joint below the root: its radius and those of its ancestors had to be
\* recomputed
C9_Witness ==
    \E sys \in Sys : \E t \in 1..Len(m_systems[sys].m_forest) :
        \E n \in 2..Len(m_systems[sys].m_forest[t]) :
            /\ is_joint(m_systems[sys].m_forest[t][n])
            /\ m_systems[sys].m_forest[t][n].m_radius > m_settings.m_system[sys].m_term_radius
            /\ m_systems[sys].m_forest[t][m_systems[sys].m_forest[t][n].parent].m_radius
                   = m_systems[sys].m_forest[t][n].m_radius

\* C10: try_attr(sys, pos) inserts pos into the attraction index of sys
\* exactly when no node of sys lies within birth_node and no attraction of
\* sys within birth_attr of pos, and changes nothing else; sample_attraction
\* offers exactly sample_count samples this way and changes only the
\* arterial attraction index.
C10_TryAttrAndSampling ==
    [][/\ \A sys \in Sys, pos \in AttrPoints :
             TryAttr(sys, pos) =>
                 m_systems' =
                     IF Admissible(m_systems[sys], m_params.m_system[sys], pos)
                     THEN [m_systems EXCEPT ![sys].m_attr_search = index_insert_attr(@, pos)]
                     ELSE m_systems
       /\ pc = At("sample") =>
             /\ Len(hist'.samples) = m_settings.m_sample_count
             /\ m_systems' =
                    [m_systems EXCEPT !["arterial"].m_attr_search =
                        Offered(m_systems["arterial"], m_params.m_system["arterial"],
                                hist'.samples)]]_vars

\* two samples were offered; the first went in, the second was rejected for
\* being within birth_attr of it
C10_Witness ==
    /\ pc = AtSys("closest", "arterial")
    /\ Len(hist.samples) = 2
    /\ hist.samples[1] = hist.samples[2]
    /\ Count(m_systems["arterial"].m_attr_search, hist.samples[1]) = 1
    /\ m_systems["venous"].m_attr_search # << >>

\* the phases of one iteration in the order of the loop body
IterationPhases ==
    << <<"sample_attraction">>, <<"step", "arterial">>, <<"combine_systems">>,
       <<"step", "venous">>, <<"domain_growth", "arterial">>, <<"domain_growth", "venous">> >>

\* C11: without cancellation a run on a non-empty arterial forest leaves its
\* loop, and does so after exactly m_steps iterations, each of which has gone
\* through sample_attraction, step(arterial), combine_systems, step(venous),
\* domain_growth(arterial), domain_growth(venous) once, in this order.
C11_RunDoesStepsIterations ==
    /\ [](pc = At("exit") => hist.iters = m_settings.m_steps)
    /\ [](pc = At("loop") => \/ hist.iters = 0 /\ hist.phases = << >>
                             \/ hist.iters > 0 /\ hist.phases = IterationPhases)
    /\ (pc = At("store") ~> pc = At("exit"))

\* a run with the largest m_steps has done all its iterations; the counter
\* has wrapped
C11_Witness ==
    /\ pc = At("exit")
    /\ m_settings.m_steps = MaxSteps
    /\ hist.iters = MaxSteps
    /\ m_params.m_curr_step = 0

\* C12: the step counter strictly increases with each iteration and at the
\* end of the run equals the number of iterations performed; domain_growth
\* never decreases a system's scaling, and the scaling is always >= 1.
C12_CounterAndScalingMonotone ==
    [][/\ pc = At("loop") /\ pc' = At("sample") =>
             m_params'.m_curr_step > m_params.m_curr_step
       /\ pc = At("loop") /\ pc' = At("exit") => m_params'.m_curr_step = hist.iters
       /\ \A sys \in Sys :
             /\ pc = AtSys("domain_growth", sys) =>
                   ~qless(m_params'.m_system[sys].m_scaling, m_params.m_system[sys].m_scaling)
             /\ ~qless(m_params'.m_system[sys].m_scaling, Q(1, 1))]_vars

\* a domain_growth has left a scaling below 1 and distances above the
\* settings
C12_Witness ==
    \E sys \in Sys :
        /\ qless(m_params.m_system[sys].m_scaling, Q(1, 1))
        /\ m_params.m_system[sys].m_growth_distance > m_settings.m_system[sys].m_growth_distance

\* the positions of a sequence
Range(seq) == {seq[i] : i \in 1..Len(seq)}

\* C13: an arterial attraction killed in the arterial step is absent from the
\* arterial attraction index after that step and its position is in the
\* arterial satisfied list when combine_systems begins; with a non-empty
\* venous forest its position is in the venous attraction index after
\* combine_systems, when step(venous) begins.
C13_KilledAttractionMoves ==
    [][/\ pc = AtSys("kill", "arterial") =>
             /\ pc' = At("combine")
             /\ \A p \in Associated :
                   Count(m_systems'["arterial"].m_killed_attr, p)
                       > Count(m_systems["arterial"].m_killed_attr, p) =>
                       /\ p \notin Range(m_systems'["arterial"].m_attr_search)
                       /\ p \in Range(m_systems'["arterial"].m_killed_attr)
       /\ pc = At("combine") =>
             /\ pc' = AtSys("closest", "venous")
             /\ ~forest_empty(m_systems["venous"].m_forest) =>
                   Range(m_systems["arterial"].m_killed_attr)
                       \subseteq Range(m_systems'["venous"].m_attr_search)]_vars

\* step(venous) begins with a venous attraction that is no arterial
\* attraction any more
C13_Witness ==
    /\ pc = AtSys("closest", "venous")
    /\ ~forest_empty(m_systems["venous"].m_forest)
    /\ m_systems["arterial"].m_killed_attr = << >>
    /\ \E p \in Range(m_systems["venous"].m_attr_search) :
          p \notin Range(m_systems["arterial"].m_attr_search)

\* C14: run() on an empty arterial forest returns without effect: the
\* runtime parameters and the step counter, the forests, indices and
\* satisfied lists of both systems are unchanged, no phase is executed, and
\* the is-running flag is not set.
C14_RunOnEmptyForest ==
    [][/\ pc = At("idle") /\ pc' # pc /\ forest_empty(m_systems["arterial"].m_forest) =>
             pc' = At("return")
       /\ pc = At("return") \/ pc' = At("return") =>
             /\ pc' \in {At("return"), At("idle")}
             /\ m_params' = m_params
             /\ m_systems' = m_systems
             /\ ~m_is_running /\ ~m_is_running']_vars

\* run() returns on an empty arterial forest while the venous system has a
\* tree and attractions from an earlier run
C14_Witness ==
    /\ pc = At("return")
    /\ ~forest_empty(m_systems["venous"].m_forest)
    /\ m_systems["venous"].m_attr_search # << >>
    /\ m_params = hist.entry.params
    /\ m_systems = hist.entry.systems

\* value = setting / scaling, for a scaling n/d
IsQuotient(value, setting, scaling) == value * scaling.n = setting * scaling.d

\* every runtime distance of sys is its setting divided by the scaling
DistancesAtScaling(params, sys) ==
    LET p == params.m_system[sys]
        sett == m_settings.m_system[sys]
    IN  /\ IsQuotient(p.m_birth_attr, sett.m_birth_attr, p.m_scaling)
        /\ IsQuotient(p.m_birth_node, sett.m_birth_node, p.m_scaling)
        /\ IsQuotient(p.m_influence_attr, sett.m_influence_attr, p.m_scaling)
        /\ IsQuotient(p.m_kill_attr, sett.m_kill_attr, p.m_scaling)
        /\ IsQuotient(p.m_growth_distance, sett.m_growth_distance, p.m_scaling)

\* the scaling after one domain_growth of a system
NextScaling(sys, scaling) ==
    LET f == m_settings.m_system[sys].m_grow_func
    IN  IF f.m_type = "none" THEN scaling
        ELSE IF f.m_type = "linear" THEN Q(scaling.n * f.m_value.d + f.m_value.n * scaling.d,
                                           scaling.d * f.m_value.d)
        ELSE Q(scaling.n * (f.m_value.d + f.m_value.n), scaling.d * f.m_value.d)

\* C15: from init_runtime_params on, each runtime distance of each system is
\* its setting divided by the system's scaling; the scaling is 1 after
\* init_runtime_params and each domain_growth of a system leaves it
\* unchanged (none), adds v (linear) or adds scaling * v (exponential), and
\* leaves the other system's parameters alone.
C15_DistancesFollowScaling ==
    [][/\ pc' \notin {At("idle"), At("return")} =>
             \A sys \in Sys : DistancesAtScaling(m_params', sys)
       /\ pc = At("idle") /\ pc' = At("store") =>
             \A sys \in Sys : m_params'.m_system[sys].m_scaling = Q(1, 1)
       /\ \A sys \in Sys :
             pc = AtSys("domain_growth", sys) =>
                 /\ m_params'.m_system[sys].m_scaling =
                        NextScaling(sys, m_params.m_system[sys].m_scaling)
                 /\ m_params'.m_system[OtherSys(sys)] = m_params.m_system[OtherSys(sys)]
       /\ pc.at \notin {"idle", "domain_growth"} /\ pc'.at # "idle" =>
             m_params'.m_system = m_params.m_system]_vars

\* after two iterations the linear scaling is 3, the exponential one 4, and
\* the distances are thirds and quarters of the settings
C15_Witness ==
    /\ pc = At("loop")
    /\ m_params.m_system["arterial"].m_scaling = Q(3, 1)
    /\ m_params.m_system["venous"].m_scaling = Q(4, 1)
    /\ m_params.m_system["arterial"].m_growth_distance * 3
           = m_settings.m_system["arterial"].m_growth_distance
    /\ m_params.m_system["venous"].m_kill_attr * 4 = m_settings.m_system["venous"].m_kill_attr

\* the positions that may follow a position inside one iteration
PhasesAfter(p) ==
    IF p = At("sample") THEN {AtSys("closest", "arterial")}
    ELSE IF p = AtSys("closest", "arterial") THEN {AtSys("growth", "arterial"), At("combine")}
    ELSE IF p = AtSys("growth", "arterial") THEN {AtSys("kill", "arterial")}
    ELSE IF p = AtSys("kill", "arterial") THEN {At("combine")}
    ELSE IF p = At("combine") THEN {AtSys("closest", "venous")}
    ELSE IF p = AtSys("closest", "venous")
         THEN {AtSys("growth", "venous"), AtSys("domain_growth", "arterial")}
    ELSE IF p = AtSys("growth", "venous") THEN {AtSys("kill", "venous")}
    ELSE IF p = AtSys("kill", "venous") THEN {AtSys("domain_growth", "arterial")}
    ELSE IF p = AtSys("domain_growth", "arterial") THEN {AtSys("domain_growth", "venous")}
    ELSE {At("loop")}

\* C16: within an iteration the phases follow one another in the order of
\* the loop body; closest only associates (with nodes that exist before
\* growth), growth only changes the forest and the node index, kill only the
\* attraction index and the satisfied list and counts the nodes growth has
\* just created; a step leaves the other system alone, and the runtime
\* distances change only in domain_growth, after both steps.
C16_PhasesSequential ==
    [][/\ InIteration /\ pc' # pc => pc' \in PhasesAfter(pc)
       /\ pc.at \in {"sample", "closest", "growth", "kill", "combine"} => m_params' = m_params
       /\ \A sys \in Sys :
             /\ pc.at \in {"closest", "growth", "kill"} /\ pc.sys = sys =>
                   m_systems'[OtherSys(sys)] = m_systems[OtherSys(sys)]
             /\ pc = AtSys("closest", sys) =>
                   /\ m_systems' = m_systems
                   /\ DOMAIN attr_map' \subseteq ForestNodes(m_systems[sys].m_forest, sys)
             /\ pc = AtSys("growth", sys) =>
                   /\ attr_map' = attr_map
                   /\ m_systems'[sys].m_attr_search = m_systems[sys].m_attr_search
                   /\ m_systems'[sys].m_killed_attr = m_systems[sys].m_killed_attr
             /\ pc = AtSys("kill", sys) =>
                   /\ m_systems'[sys].m_forest = m_systems[sys].m_forest
                   /\ m_systems'[sys].m_node_search = m_systems[sys].m_node_search
                   /\ \A p \in Associated :
                         (\E q \in NodePositions(sys) :
                             in_range(q, p, m_params.m_system[sys].m_kill_attr))
                         => Count(m_systems'[sys].m_attr_search, p)
                                = Count(m_systems[sys].m_attr_search, p) - AssociatedCount(p)]_vars

\* kill begins with an associated attraction whose only node within
\* kill_attr is the one growth has just created
C16_Witness ==
    \E sys \in Sys :
        /\ pc = AtSys("kill", sys)
        /\ \E h \in DOMAIN attr_map : \E i \in 1..Len(attr_map[h]) :
              LET tree == m_systems[sys].m_forest[h[2]]
                  near == {n \in 1..Len(tree) :
                              in_range(tree[n].m_pos, attr_map[h][i],
                                       m_params.m_system[sys].m_kill_attr)}
              IN  /\ near = {Len(tree)}
                  /\ tree[Len(tree)].parent = h[3]
                  /\ Len(m_systems[sys].m_forest) = 1

\* how often the position p is associated in an association
CountIn(map, p) ==
    Cardinality({<<h, i>> \in UNION {{<<g, j>> : j \in 1..Len(map[g])} : g \in DOMAIN map} :
                    map[h][i] = p})

\* the distance of a node of the forest from p
DistanceTo(h, p) == Abs(Val(NodeOf(m_systems, h).m_pos) - Val(p))

\* the non-joint nodes of sys within influence_attr of p
Candidates(sys, p) ==
    {h \in ForestNodes(m_systems[sys].m_forest, sys) :
        /\ Len(NodeOf(m_systems, h).children) < 2
        /\ in_range(NodeOf(m_systems, h).m_pos, p, m_params.m_system[sys].m_influence_attr)}

\* C17: step_closest associates every attraction with at most one node; the
\* node of an associated attraction is no joint, lies within influence_attr
\* of it and is nearest to it among the non-joint nodes within
\* influence_attr; an attraction with no non-joint node in range is
\* associated with no node.
C17_NearestNonJoint ==
    [][\A sys \in Sys :
          pc = AtSys("closest", sys) /\ pc' = AtSys("growth", sys) =>
              /\ \A p \in Range(m_systems[sys].m_attr_search) :
                    /\ CountIn(attr_map', p) <= Count(m_systems[sys].m_attr_search, p)
                    /\ Candidates(sys, p) = {} => CountIn(attr_map', p) = 0
              /\ \A h \in DOMAIN attr_map' :
                    /\ attr_map'[h] # << >>
                    /\ \A i \in 1..Len(attr_map'[h]) :
                          /\ attr_map'[h][i] \in Range(m_systems[sys].m_attr_search)
                          /\ h \in Candidates(sys, attr_map'[h][i])
                          /\ \A g \in Candidates(sys, attr_map'[h][i]) :
                                DistanceTo(h, attr_map'[h][i]) <= DistanceTo(g, attr_map'[h][i])]_vars

\* an attraction is associated with a leaf although a joint is as near and
\* another non-joint node in range is farther away
C17_Witness ==
    \E sys \in Sys :
        /\ pc = AtSys("growth", sys)
        /\ \E h \in DOMAIN attr_map : \E i \in 1..Len(attr_map[h]) :
              LET p == attr_map[h][i]
              IN  /\ \E g \in ForestNodes(m_systems[sys].m_forest, sys) :
                        /\ is_joint(NodeOf(m_systems, g))
                        /\ in_range(NodeOf(m_systems, g).m_pos, p,
                                    m_params.m_system[sys].m_influence_attr)
                        /\ DistanceTo(g, p) <= DistanceTo(h, p)
                  /\ \E k \in Candidates(sys, p) : DistanceTo(k, p) > DistanceTo(h, p)

\* the candidates nearest to p
Nearest(sys, p) ==
    {h \in Candidates(sys, p) : \A g \in Candidates(sys, p) : DistanceTo(h, p) <= DistanceTo(g, p)}

\* p lies behind the non-root leaf h: on the x axis the angle between the
\* direction from the parent to h and the direction from h to p is 180
\* degrees, and that is more than half the perception volume
LeafRejects(sys, h, p) ==
    LET node == NodeOf(m_systems, h)
        tree == m_systems[sys].m_forest[h[2]]
    IN  /\ node.parent # 0
        /\ node.children = << >>
        /\ ~IsNaN(tree[node.parent].m_pos)
        /\ Sign(Val(node.m_pos) - Val(tree[node.parent].m_pos))
               * Sign(Val(p) - Val(node.m_pos)) = -1
        /\ 2 * 180 > m_settings.m_system[sys].m_percept_vol

\* C18: a node gains children in a growth phase only if it has an
\* associated attraction; an attraction is never associated with a leaf that
\* rejects it by the perception volume, and when all nearest non-joint nodes
\* reject it, it is associated with no node, also not with a farther one.
C18_RejectedAttractionIsDropped ==
    [][\A sys \in Sys :
          /\ pc = AtSys("closest", sys) /\ pc' = AtSys("growth", sys) =>
                /\ \A h \in DOMAIN attr_map' : \A i \in 1..Len(attr_map'[h]) :
                      ~LeafRejects(sys, h, attr_map'[h][i])
                /\ \A p \in Range(m_systems[sys].m_attr_search) :
                      (Nearest(sys, p) # {} /\ \A h \in Nearest(sys, p) : LeafRejects(sys, h, p))
                      => CountIn(attr_map', p) = 0
          /\ pc = AtSys("growth", sys) =>
                \A h \in ForestNodes(m_systems[sys].m_forest, sys) :
                    m_systems'[sys].m_forest[h[2]][h[3]].children # NodeOf(m_systems, h).children
                    => h \in DOMAIN attr_map /\ attr_map[h] # << >>]_vars

\* the only association of a growth phase would have been with leaves that
\* reject the attraction; a farther node is in range, and nothing is
\* associated
C18_Witness ==
    \E sys \in Sys :
        /\ pc = AtSys("growth", sys)
        /\ attr_map = EmptyMap
        /\ \E p \in Range(m_systems[sys].m_attr_search) :
              /\ Nearest(sys, p) # {}
              /\ \A h \in Nearest(sys, p) : LeafRejects(sys, h, p)
              /\ Candidates(sys, p) # Nearest(sys, p)

\* the roots of the forest of sys
Roots(sys) ==
    {h \in ForestNodes(m_systems[sys].m_forest, sys) : NodeOf(m_systems, h).parent = 0}

\* C19: a root has at most one child, and a growth phase leaves the
\* children of a root that already has one as they are.
C19_RootKeepsOneChild ==
    /\ [](\A sys \in Sys : \A h \in Roots(sys) : Len(NodeOf(m_systems, h).children) <= 1)
    /\ [][\A sys \in Sys :
             pc = AtSys("growth", sys) =>
                 \A h \in Roots(sys) :
                     NodeOf(m_systems, h).children # << >> =>
                         NodeOf(m_systems', h).children = NodeOf(m_systems, h).children]_vars

\* after a growth phase a root with an associated attraction has its one
\* child; the child has no position, so it is not the sprout towards that
\* attraction and was there before the phase
C19_Witness ==
    \E sys \in Sys :
        /\ pc = AtSys("kill", sys)
        /\ \E h \in Roots(sys) :
              /\ h \in DOMAIN attr_map
              /\ Len(attr_map[h]) = 1
              /\ attr_map[h][1] # NodeOf(m_systems, h).m_pos
              /\ Len(NodeOf(m_systems, h).children) = 1
              /\ IsNaN(m_systems[sys].m_forest[h[2]][NodeOf(m_systems, h).children[1]].m_pos)

\* the number of children node h of sys gains in this step
Gained(sys, h) ==
    Len(m_systems'[sys].m_forest[h[2]][h[3]].children) - Len(NodeOf(m_systems, h).children)

\* C20: in a growth phase a node gains two children only if it is a non-root
\* leaf with more than one associated attraction and bif_thresh >= 0; with a
\* negative bif_thresh a node gains at most one child, every selected node
\* other than a root with a child gains exactly one, and a node that becomes
\* a joint was an intermediate node before.
C20_BifurcationOnlyWhenEnabled ==
    [][\A sys \in Sys :
          pc = AtSys("growth", sys) /\ pc' = AtSys("kill", sys) =>
              \A h \in ForestNodes(m_systems[sys].m_forest, sys) :
                  LET node == NodeOf(m_systems, h)
                      selected == h \in DOMAIN attr_map /\ attr_map[h] # << >>
                  IN  /\ Gained(sys, h) \in 0..2
                      /\ Gained(sys, h) = 2 =>
                            /\ node.parent # 0 /\ node.children = << >>
                            /\ selected /\ Len(attr_map[h]) > 1
                            /\ m_settings.m_system[sys].m_bif_thresh >= 0
                      /\ m_settings.m_system[sys].m_bif_thresh < 0 =>
                            /\ Gained(sys, h) <= 1
                            /\ (selected /\ ~(node.parent = 0 /\ node.children # << >>))
                                   => Gained(sys, h) = 1
                            /\ (Gained(sys, h) > 0 /\ Len(node.children) + Gained(sys, h) = 2)
                                   => node.parent # 0 /\ Len(node.children) = 1]_vars

\* after the growth phase of the first iteration of a run a node that was a
\* leaf when the run was entered has two children
C20_Witness ==
    \E sys \in Sys :
        /\ pc = AtSys("kill", sys)
        /\ hist.iters = 1
        /\ m_settings.m_system[sys].m_bif_thresh >= 0
        /\ \E h \in DOMAIN attr_map :
              /\ Len(attr_map[h]) > 1
              /\ NodeOf(m_systems, h).parent # 0
              /\ Len(NodeOf(m_systems, h).children) = 2
              /\ NodeOf(hist.entry.systems, h).children = << >>

\* the settings with only_leaf_development of sys set to flag
WithOnlyLeafDevelopment(sys, flag) ==
    [m_settings EXCEPT !.m_system[sys].m_only_leaf_development = flag]

\* C21: in every state where a step or its growth phase is about to run, the
\* outcomes with only_leaf_development set are the outcomes with it cleared
\* (forest, indices and satisfied list); and with the flag set a selected
\* non-root intermediate node still gains its lateral sprout.
C21_OnlyLeafDevelopmentHasNoEffect ==
    /\ [](\A sys \in Sys :
            /\ pc = AtSys("closest", sys) =>
                  step(m_systems, m_params, WithOnlyLeafDevelopment(sys, TRUE), sys)
                      = step(m_systems, m_params, WithOnlyLeafDevelopment(sys, FALSE), sys)
            /\ pc = AtSys("growth", sys) =>
                  step_growth(m_systems, m_params, WithOnlyLeafDevelopment(sys, TRUE), sys, attr_map)
                      = step_growth(m_systems, m_params, WithOnlyLeafDevelopment(sys, FALSE), sys, attr_map))
    /\ [][\A sys \in Sys :
             (/\ pc = AtSys("growth", sys) /\ pc' = AtSys("kill", sys)
              /\ m_settings.m_system[sys].m_only_leaf_development) =>
                 \A h \in DOMAIN attr_map :
                     (/\ attr_map[h] # << >>
                      /\ NodeOf(m_systems, h).parent # 0
                      /\ Len(NodeOf(m_systems, h).children) = 1) => Gained(sys, h) = 1]_vars

\* with the flag set, a node that had one child when the run was entered is
\* a joint after the growth phase of the first iteration
C21_Witness ==
    \E sys \in Sys :
        /\ pc = AtSys("kill", sys)
        /\ hist.iters = 1
        /\ m_settings.m_system[sys].m_only_leaf_development
        /\ \E h \in DOMAIN attr_map :
              /\ attr_map[h] # << >>
              /\ NodeOf(m_systems, h).parent # 0
              /\ Len(NodeOf(m_systems, h).children) = 2
              /\ Len(NodeOf(hist.entry.systems, h).children) = 1

\* C22: when run() returns from its loop the is-running flag is false, and
\* it is false whenever no run() is executing; the first iteration of a run
\* starts with the flag true unless stop() was called after run() set it.
C22_FlagClearedOnReturn ==
    /\ [](pc = At("idle") => ~m_is_running)
    /\ [][/\ pc = At("exit") /\ pc' = At("idle") => ~m_is_running'
          /\ (/\ pc = At("loop") /\ pc' = At("sample")
              /\ hist.iters = 0 /\ ~hist.stop_after_store) => m_is_running /\ m_is_running']_vars

\* a run that was stopped after it set the flag has returned with fewer
\* iterations than asked, after growing the arterial forest
C22_Witness ==
    /\ pc = At("idle")
    /\ ~m_is_running
    /\ hist.stop_after_store
    /\ m_params.m_curr_step > 0
    /\ m_params.m_curr_step <= m_settings.m_steps
    /\ \E h \in ForestNodes(m_systems["arterial"].m_forest, "arterial") : h[3] > 1

====
